---- MODULE Spec2Model ----
(***************************************************************************)
(* A model of the Live-Weather Telegram bot (src/main.py).                 *)
(*                                                                         *)
(* Python values are modelled as follows.                                  *)
(*   str that the code inspects (weather category, description):           *)
(*       a sequence of one-character strings;                              *)
(*   str that the code only interpolates (names, static texts): a string;  *)
(*   dict: a function whose DOMAIN is the set of keys that are present;    *)
(*   list: a sequence;                                                     *)
(*   an exception: a record [type, status];                                *)
(*   a rendered message: a sequence of lines, a line a sequence of parts.  *)
(***************************************************************************)
EXTENDS Integers, Sequences, FiniteSets, TLC

VARIABLES
    pc,            \* position of the handler task ("idle" between updates)
    update,        \* the inbound update being handled
    handlers_run,  \* handlers invoked for this update, in order
    current,       \* local `current` of the weather handlers
    forecast,      \* local `forecast`
    coords,        \* locals lat, lon of weather_cmd (<<>> until assigned)
    current_text,  \* local `current_text`
    forecast_text, \* local `forecast_text`
    exc,           \* exception in flight (<<>> when none)
    http,          \* outbound provider calls of this invocation, in order
    replies,       \* replies sent for this update, in order
    log,           \* logger.exception entries of this invocation
    escaped,       \* an exception left the handler
    handled,       \* updates taken from the platform so far
    todo,          \* callbacks the dispatcher has still to run for this update
    call,          \* pure-function harness: the call <<function, arguments>>
    ret            \* pure-function harness: its result (<<>> before the call)

vars == <<pc, update, handlers_run, current, forecast, coords, current_text,
          forecast_text, exc, http, replies, log, escaped, handled, todo, call, ret>>

handler_vars == <<pc, update, handlers_run, current, forecast, coords,
                  current_text, forecast_text, exc, http, replies, log,
                  escaped, handled, todo>>

(***************************************************************************)
(* Bounds of the model.                                                    *)
(***************************************************************************)
MaxUpdates == 2    \* updates delivered in one behaviour
MaxArgs == 2       \* words after /weather
MaxFrags == 2      \* fragments concatenated into a weather category

(***************************************************************************)
(* Python dict and str primitives.                                         *)
(***************************************************************************)
EmptyDict == <<>>

Has(d, k) == k \in DOMAIN d

Get(d, k, default) == IF Has(d, k) THEN d[k] ELSE default

Omit(d, k) == [x \in (DOMAIN d) \ {k} |-> d[x]]

With(d, k, v) == [x \in (DOMAIN d) \cup {k} |-> IF x = k THEN v ELSE d[x]]

UpperLetters == <<"A","B","C","D","E","F","G","H","I","J","K","L","M",
                  "N","O","P","Q","R","S","T","U","V","W","X","Y","Z">>

LowerLetters == <<"a","b","c","d","e","f","g","h","i","j","k","l","m",
                  "n","o","p","q","r","s","t","u","v","w","x","y","z">>

IndexIn(letters, ch) ==
    IF \E i \in DOMAIN letters : letters[i] = ch
    THEN CHOOSE i \in DOMAIN letters : letters[i] = ch
    ELSE 0

LowerChar(ch) ==
    IF IndexIn(UpperLetters, ch) # 0 THEN LowerLetters[IndexIn(UpperLetters, ch)] ELSE ch

UpperChar(ch) ==
    IF IndexIn(LowerLetters, ch) # 0 THEN UpperLetters[IndexIn(LowerLetters, ch)] ELSE ch

IsLetter(ch) == IndexIn(UpperLetters, ch) # 0 \/ IndexIn(LowerLetters, ch) # 0

\* str.lower()
Lower(s) == [i \in DOMAIN s |-> LowerChar(s[i])]

\* str.title(): a letter that follows a non-letter is upper-cased, the others lower-cased
Title(s) ==
    [i \in DOMAIN s |->
        IF i = 1 \/ ~IsLetter(s[i - 1]) THEN UpperChar(s[i]) ELSE LowerChar(s[i])]

\* `kw in s`
Contains(s, kw) ==
    \E i \in 0..(Len(s) - Len(kw)) : SubSeq(s, i + 1, i + Len(kw)) = kw

(***************************************************************************)
(* icon_for                                                                *)
(***************************************************************************)
kw_thunder == <<"t","h","u","n","d","e","r">>
kw_drizzle == <<"d","r","i","z","z","l","e">>
kw_rain == <<"r","a","i","n">>
kw_snow == <<"s","n","o","w">>
kw_clear == <<"c","l","e","a","r">>
kw_cloud == <<"c","l","o","u","d">>
kw_mist == <<"m","i","s","t">>
kw_fog == <<"f","o","g">>
kw_haze == <<"h","a","z","e">>
kw_smoke == <<"s","m","o","k","e">>

icon_thunder == "cloud_with_lightning_and_rain"
icon_drizzle == "sun_behind_rain_cloud"
icon_rain == "cloud_with_rain"
icon_snow == "snowflake"
icon_clear == "sun"
icon_cloud == "cloud"
icon_mist == "fog"
icon_fallback == "thermometer"

\* the lookup with the rain test moved in front of the thunder and drizzle tests
icon_for_rain_first(condition) ==
    LET c == Lower(condition) IN
    IF Contains(c, kw_rain) THEN icon_rain
    ELSE IF Contains(c, kw_thunder) THEN icon_thunder
    ELSE IF Contains(c, kw_drizzle) THEN icon_drizzle
    ELSE IF Contains(c, kw_snow) THEN icon_snow
    ELSE IF Contains(c, kw_clear) THEN icon_clear
    ELSE IF Contains(c, kw_cloud) THEN icon_cloud
    ELSE IF Contains(c, kw_mist) \/ Contains(c, kw_fog)
            \/ Contains(c, kw_haze) \/ Contains(c, kw_smoke) THEN icon_mist
    ELSE icon_fallback

icon_for(condition) ==
    LET c == Lower(condition) IN
    IF Contains(c, kw_thunder) THEN icon_thunder
    ELSE IF Contains(c, kw_drizzle) THEN icon_drizzle
    ELSE IF Contains(c, kw_rain) THEN icon_rain
    ELSE IF Contains(c, kw_snow) THEN icon_snow
    ELSE IF Contains(c, kw_clear) THEN icon_clear
    ELSE IF Contains(c, kw_cloud) THEN icon_cloud
    ELSE IF Contains(c, kw_mist) \/ Contains(c, kw_fog)
            \/ Contains(c, kw_haze) \/ Contains(c, kw_smoke) THEN icon_mist
    ELSE icon_fallback

(***************************************************************************)
(* fmt_time: the instant ts seen at a fixed UTC offset, "%a %d %b %H:%M",  *)
(* as <<weekday, day, month, hour, minute>>.                               *)
(***************************************************************************)
WeekdayNames == <<"Mon","Tue","Wed","Thu","Fri","Sat","Sun">>

MonthNames == <<"Jan","Feb","Mar","Apr","May","Jun",
                "Jul","Aug","Sep","Oct","Nov","Dec">>

\* <<month, day>> of the proleptic Gregorian date `days` days after 1970-01-01
CivilFromDays(days) ==
    LET z == days + 719468
        era == z \div 146097
        doe == z - era * 146097
        yoe == (doe - doe \div 1460 + doe \div 36524 - doe \div 146096) \div 365
        doy == doe - (365 * yoe + yoe \div 4 - yoe \div 100)
        mp == (5 * doy + 2) \div 153
        d == doy - (153 * mp + 2) \div 5 + 1
        m == IF mp < 10 THEN mp + 3 ELSE mp - 9
    IN <<m, d>>

fmt_time(ts, tz_offset_seconds) ==
    LET local == ts + tz_offset_seconds
        days == local \div 86400
        secs == local % 86400
        md == CivilFromDays(days)
    IN <<WeekdayNames[((days + 3) % 7) + 1], md[2], MonthNames[md[1]],
         secs \div 3600, (secs % 3600) \div 60>>

NA == <<"N/A">>

\* Python truthiness of a number
Truthy(v) == v # 0

(***************************************************************************)
(* Results of operations that may raise: [exc |-> <<>>, value |-> v] or    *)
(* [exc |-> <<e>>, value |-> <<>>].                                        *)
(***************************************************************************)
Exc(type, status) == [type |-> type, status |-> status]

Ok(v) == [exc |-> <<>>, value |-> v]

Raise(e) == [exc |-> <<e>>, value |-> <<>>]

KeyError == Exc("KeyError", 0)

IndexError == Exc("IndexError", 0)

Fmt(spec, v) == <<spec, v>>

CountrySeg(country) == IF country # "" THEN <<", ", country>> ELSE <<"">>

(***************************************************************************)
(* format_current_weather                                                  *)
(***************************************************************************)
CurrentMainKeys == {"temp", "feels_like", "humidity", "pressure"}

\* the rendering C8 states: fmt_time whenever the key is present, "N/A" otherwise
SunStrPresent(sys, key, tz_offset) ==
    IF Has(sys, key) THEN fmt_time(sys[key], tz_offset) ELSE NA

\* sunrise = sys.get(key); fmt_time(...) if sunrise else "N/A"
SunStr(sys, key, tz_offset) ==
    IF Has(sys, key) /\ Truthy(sys[key]) THEN fmt_time(sys[key], tz_offset) ELSE NA

format_current_weather(data) ==
    IF ~Has(data, "weather") THEN Raise(KeyError)
    ELSE IF Len(data["weather"]) = 0 THEN Raise(IndexError)
    ELSE IF ~Has(data, "main") THEN Raise(KeyError)
    ELSE IF ~Has(data["weather"][1], "main") THEN Raise(KeyError)
    ELSE IF ~Has(data["weather"][1], "description") THEN Raise(KeyError)
    ELSE IF ~(CurrentMainKeys \subseteq DOMAIN data["main"]) THEN Raise(KeyError)
    ELSE
        LET name == Get(data, "name", "Your location")
            sys == Get(data, "sys", EmptyDict)
            country == Get(sys, "country", "")
            weather == data["weather"][1]
            main == data["main"]
            wind == Get(data, "wind", EmptyDict)
            icon == icon_for(weather["main"])
            tz_offset == Get(data, "timezone", 0)
            sunrise_str == SunStr(sys, "sunrise", tz_offset)
            sunset_str == SunStr(sys, "sunset", tz_offset)
        IN Ok(<< <<icon, " *Current weather in ", name, CountrySeg(country), "*">>,
                 <<"* ", Title(weather["description"])>>,
                 <<"* Temp: ", Fmt(".1f", main["temp"]), "C (feels ",
                   Fmt(".1f", main["feels_like"]), "C)">>,
                 <<"* Humidity: ", main["humidity"], "%  * Pressure: ",
                   main["pressure"], " hPa">>,
                 <<"* Wind: ", Get(wind, "speed", 0), " m/s">>,
                 <<"* Sunrise: ", sunrise_str, "  * Sunset: ", sunset_str>> >>)

(***************************************************************************)
(* format_forecast                                                         *)
(***************************************************************************)
ForecastCount == 12

Take(s, n) == SubSeq(s, 1, IF Len(s) < n THEN Len(s) ELSE n)

ItemRaises(item) ==
    \/ ~Has(item, "dt")
    \/ ~Has(item, "main")
    \/ ~Has(item, "weather")
    \/ Len(item["weather"]) = 0
    \/ ~Has(item["weather"][1], "main")
    \/ ~Has(item["weather"][1], "description")
    \/ ~Has(item["main"], "temp")

ItemLine(item, tz_offset) ==
    LET weather == item["weather"][1]
        wind == Get(item, "wind", EmptyDict)
    IN <<fmt_time(item["dt"], tz_offset), " - ", icon_for(weather["main"]), " ",
         Title(weather["description"]), ", ", Fmt(".0f", item["main"]["temp"]),
         "C, wind ", Get(wind, "speed", 0), " m/s">>

format_forecast(data) ==
    LET cityd == Get(data, "city", EmptyDict)
        city == Get(cityd, "name", "location")
        country == Get(cityd, "country", "")
        tz_offset == Get(cityd, "timezone", 0)
        header == <<"calendar *Next 36 hours for ", city, CountrySeg(country), "*">>
        items == Take(Get(data, "list", <<>>), ForecastCount)
    IN IF \E i \in DOMAIN items : ItemRaises(items[i])
       THEN Raise(IF \E i \in DOMAIN items :
                        Has(items[i], "weather") /\ Len(items[i]["weather"]) = 0
                  THEN IndexError ELSE KeyError)
       ELSE Ok(<<header, [i \in DOMAIN items |-> <<"* ", ItemLine(items[i], tz_offset)>>]>>)

(***************************************************************************)
(* Provider payloads (numbers with one decimal are kept in tenths).        *)
(***************************************************************************)
s_Clouds == <<"C","l","o","u","d","s">>
s_Rain == <<"R","a","i","n">>
s_overcast_clouds == <<"o","v","e","r","c","a","s","t"," ","c","l","o","u","d","s">>
s_light_rain == <<"l","i","g","h","t"," ","r","a","i","n">>

London ==
    [name |-> "London",
     sys |-> [country |-> "GB", sunrise |-> 1700000000, sunset |-> 1700035000],
     weather |-> <<[main |-> s_Clouds, description |-> s_overcast_clouds]>>,
     main |-> [temp |-> 153, feels_like |-> 141, humidity |-> 80, pressure |-> 1012],
     wind |-> [speed |-> 32],
     coord |-> [lat |-> 515, lon |-> -1],
     timezone |-> 0]

\* a place in polar night: the payload carries no sunrise and no sunset
Tromso ==
    [name |-> "Tromso",
     sys |-> [country |-> "NO"],
     weather |-> <<[main |-> s_Rain, description |-> s_light_rain]>>,
     main |-> [temp |-> -25, feels_like |-> -80, humidity |-> 91, pressure |-> 998],
     coord |-> [lat |-> 696, lon |-> 189],
     timezone |-> 3600]

ForecastItem(i) ==
    [dt |-> 1700000000 + 10800 * i,
     main |-> [temp |-> 150 - i],
     weather |-> <<[main |-> IF i % 2 = 0 THEN s_Rain ELSE s_Clouds,
                    description |-> IF i % 2 = 0 THEN s_light_rain ELSE s_overcast_clouds]>>,
     wind |-> [speed |-> 30 + i]]

ForecastOf(n) ==
    [city |-> [name |-> "London", country |-> "GB", timezone |-> 0],
     list |-> [i \in 1..n |-> ForecastItem(i)]]

\* payloads the current-conditions endpoint may answer with
CurrentBodies ==
    {London, Tromso, Omit(London, "coord"), Omit(London, "weather"),
     Omit(London, "main"), With(London, "weather", <<>>)}

\* payloads the forecast endpoint may answer with
ForecastBodies ==
    {ForecastOf(2), ForecastOf(ForecastCount + 1), Omit(ForecastOf(2), "list"),
     With(ForecastOf(2), "list", <<Omit(ForecastItem(1), "main")>>)}

(***************************************************************************)
(* WeatherClient: requests.get, raise_for_status, r.json().                *)
(* An outcome is what the network and the provider do with one request.    *)
(***************************************************************************)
HTTP_NOT_FOUND == 404

\* status codes the provider answers with
Statuses == {200, HTTP_NOT_FOUND, 500}
RequestTimeout == 12

NetworkFailure(type) == [kind |-> "exception", type |-> type, status |-> 0, body |-> <<>>]

Response(status, body) == [kind |-> "response", type |-> "", status |-> status, body |-> body]

\* body <<>> stands for a body that is not JSON
OutcomesOver(bodies) ==
    {NetworkFailure("ConnectionError"), NetworkFailure("Timeout")}
    \cup {Response(st, <<>>) : st \in Statuses}
    \cup {Response(200, <<b>>) : b \in bodies}

CurrentOutcomes == OutcomesOver(CurrentBodies)

ForecastOutcomes == OutcomesOver(ForecastBodies)

\* r = requests.get(...); r.raise_for_status(); return r.json()
Request(outcome) ==
    IF outcome.kind = "exception" THEN Raise(Exc(outcome.type, 0))
    ELSE IF outcome.status >= 400 /\ outcome.status < 600
         THEN Raise(Exc("HTTPError", outcome.status))
    ELSE IF outcome.body = <<>> THEN Raise(Exc("JSONDecodeError", 0))
    ELSE Ok(outcome.body[1])

WeatherUrl == "https://api.openweathermap.org/data/2.5/weather"

ForecastUrl == "https://api.openweathermap.org/data/2.5/forecast"

HttpCall(fn, url, params, result) ==
    [fn |-> fn, url |-> url, params |-> params, timeout |-> RequestTimeout,
     result |-> result.exc]

get_current_by_city(city, units, outcome) ==
    [call |-> HttpCall("get_current_by_city", WeatherUrl,
                       [q |-> city, units |-> units], Request(outcome)),
     result |-> Request(outcome)]

get_current_by_coords(lat, lon, units, outcome) ==
    [call |-> HttpCall("get_current_by_coords", WeatherUrl,
                       [lat |-> lat, lon |-> lon, units |-> units], Request(outcome)),
     result |-> Request(outcome)]

get_forecast_by_coords(lat, lon, units, outcome) ==
    [call |-> HttpCall("get_forecast_by_coords", ForecastUrl,
                       [lat |-> lat, lon |-> lon, units |-> units, cnt |-> ForecastCount],
                       Request(outcome)),
     result |-> Request(outcome)]

(***************************************************************************)
(* Exception classes.                                                      *)
(***************************************************************************)
IsHTTPError(e) == e.type = "HTTPError"

IsException(e) ==
    e.type \in {"HTTPError", "ConnectionError", "Timeout", "JSONDecodeError",
                "KeyError", "IndexError"}

(***************************************************************************)
(* Inbound updates and the handler registry of main().                     *)
(***************************************************************************)
Command(name, args) ==
    [kind |-> "command", command |-> name, args |-> args, location |-> EmptyDict]

LocationShare(lat, lon) ==
    [kind |-> "location", command |-> "", args |-> <<>>,
     location |-> [latitude |-> lat, longitude |-> lon]]

PlainText == [kind |-> "text", command |-> "", args |-> <<>>, location |-> EmptyDict]

Words == {"New", "York"}

ArgLists == UNION {[1..n -> Words] : n \in 0..MaxArgs}

Updates ==
    {Command(c, a) : c \in {"start", "help", "weather", "forecast"}, a \in ArgLists}
    \cup {LocationShare(515, -1), LocationShare(696, 189)}
    \cup {PlainText}

Handlers ==
    << [type |-> "CommandHandler", filter |-> "start", callback |-> "start"],
       [type |-> "CommandHandler", filter |-> "help", callback |-> "help_cmd"],
       [type |-> "CommandHandler", filter |-> "weather", callback |-> "weather_cmd"],
       [type |-> "MessageHandler", filter |-> "LOCATION", callback |-> "handle_location"],
       [type |-> "MessageHandler", filter |-> "COMMAND", callback |-> "unknown"] >>

Matches(h, u) ==
    IF h.type = "CommandHandler" THEN u.kind = "command" /\ u.command = h.filter
    ELSE IF h.filter = "LOCATION" THEN u.kind = "location"
    ELSE u.kind = "command"

Matching(u) == {i \in DOMAIN Handlers : Matches(Handlers[i], u)}

RECURSIVE CallbacksFrom(_, _)
CallbacksFrom(i, u) ==
    IF i > Len(Handlers) THEN <<>>
    ELSE (IF Matches(Handlers[i], u) THEN <<Handlers[i].callback>> ELSE <<>>)
         \o CallbacksFrom(i + 1, u)

\* every matching handler is run, as if each were registered in a group of its own
DispatchAllMatching(u) == CallbacksFrom(1, u)

\* the handlers share one group: the first one that matches handles the update
Dispatch(u) ==
    IF Matching(u) = {} THEN <<>>
    ELSE <<Handlers[CHOOSE i \in Matching(u) : \A j \in Matching(u) : i <= j].callback>>

(***************************************************************************)
(* Replies.                                                                *)
(***************************************************************************)
StartText == <<"Hi! I'm your Weather Bot. ...">>
HelpText == <<"Commands: ...">>
UsageText == <<"Usage: /weather <city name>\nExample: /weather Singapore">>
CityNotFoundText == <<"City not found. Try a different name or share your location.">>
HttpFailText == <<"Sorry, I couldn't fetch the weather right now.">>
WentWrongText == <<"Something went wrong. Please try again later.">>
LocationFailText == <<"Couldn't fetch weather for that location. Try again.">>
UnknownText == <<"I didn't understand that. Use /weather <city> or share your location.">>

Reply(method, text, markup) == [method |-> method, text |-> text, reply_markup |-> markup]

reply_text(text) == Reply("reply_text", text, "")

reply_markdown(text) == Reply("reply_markdown", text, "")

LogEntry(msg, e) == [level |-> "ERROR", msg |-> msg, exc_info |-> e]

\* " ".join(context.args)
RECURSIVE Join(_)
Join(args) ==
    IF Len(args) = 0 THEN <<>>
    ELSE IF Len(args) = 1 THEN <<args[1]>>
    ELSE <<args[1], " ">> \o Join(Tail(args))

(***************************************************************************)
(* The handlers' control flow.  pc = [fn, at, ip]: the handler, the part   *)
(* of it that runs (entry, try, except, return) and the statement of the   *)
(* try body that is next.                                                  *)
(***************************************************************************)
At(fn, at, ip) == [fn |-> fn, at |-> at, ip |-> ip]

Idle == At("", "idle", 0)

Done == At("", "done", 0)

\* the try body with the current-conditions reply sent before the forecast call
weather_cmd_body_reply_early ==
    <<"get_current", "coord", "format_current", "reply_current",
      "get_forecast", "format_forecast", "reply_forecast">>

\* the try body with the replies in the other order
weather_cmd_body_replies_swapped ==
    <<"get_current", "coord", "get_forecast", "format_current", "format_forecast",
      "reply_forecast", "reply_current">>

\* the try body asking for the forecast twice
weather_cmd_body_forecast_twice ==
    <<"get_current", "coord", "get_forecast", "get_forecast", "format_current",
      "format_forecast", "reply_current", "reply_forecast">>

\* the statements of weather_cmd's try block
weather_cmd_body ==
    <<"get_current", "coord", "get_forecast", "format_current", "format_forecast",
      "reply_current", "reply_forecast">>

\* the statements of handle_location's try block
handle_location_body ==
    <<"get_current", "get_forecast", "format_current", "format_forecast",
      "reply_current", "reply_forecast">>

Body(fn) == IF fn = "weather_cmd" THEN weather_cmd_body ELSE handle_location_body

InTry(stmt) == pc.at = "try" /\ Body(pc.fn)[pc.ip] = stmt

Advance(p) ==
    IF p.ip < Len(Body(p.fn)) THEN At(p.fn, "try", p.ip + 1) ELSE At(p.fn, "return", 0)

\* weather_cmd never takes the usage branch
weather_cmd_entry_no_check(args) == "try"

\* if not context.args: reply usage and return
weather_cmd_entry(args) == IF Len(args) = 0 THEN "usage" ELSE "try"

Handled(entries, reply) == [caught |-> TRUE, log |-> entries, reply |-> <<reply>>]

NotCaught == [caught |-> FALSE, log |-> <<>>, reply |-> <<>>]

\* the except clauses of weather_cmd with the status test dropped
weather_cmd_except_no_404(e) ==
    IF IsHTTPError(e)
    THEN Handled(<<LogEntry("HTTP error", e)>>, reply_text(HttpFailText))
    ELSE IF IsException(e)
    THEN Handled(<<LogEntry("Unexpected error", e)>>, reply_text(WentWrongText))
    ELSE NotCaught

\* the except clauses of weather_cmd without the final `except Exception`
weather_cmd_except_http_only(e) ==
    IF IsHTTPError(e)
    THEN IF e.status = HTTP_NOT_FOUND
         THEN Handled(<<>>, reply_text(CityNotFoundText))
         ELSE Handled(<<LogEntry("HTTP error", e)>>, reply_text(HttpFailText))
    ELSE NotCaught

\* the except clauses of weather_cmd
weather_cmd_except(e) ==
    IF IsHTTPError(e)
    THEN IF e.status = HTTP_NOT_FOUND
         THEN Handled(<<>>, reply_text(CityNotFoundText))
         ELSE Handled(<<LogEntry("HTTP error", e)>>, reply_text(HttpFailText))
    ELSE IF IsException(e)
    THEN Handled(<<LogEntry("Unexpected error", e)>>, reply_text(WentWrongText))
    ELSE NotCaught

\* the except clause of handle_location
handle_location_except(e) ==
    IF IsException(e)
    THEN Handled(<<LogEntry("Location handling error", e)>>, reply_text(LocationFailText))
    ELSE NotCaught

(***************************************************************************)
(* The router: one update at a time is taken from the platform and given   *)
(* to the callbacks Dispatch selects.                                      *)
(***************************************************************************)
NoCall == <<>>

HandlerInit ==
    /\ pc = Idle
    /\ update = PlainText
    /\ handlers_run = <<>>
    /\ current = <<>>
    /\ forecast = <<>>
    /\ coords = <<>>
    /\ current_text = <<>>
    /\ forecast_text = <<>>
    /\ exc = <<>>
    /\ http = <<>>
    /\ replies = <<>>
    /\ log = <<>>
    /\ escaped = FALSE
    /\ handled = 0
    /\ todo = <<>>

Init == HandlerInit /\ call = NoCall /\ ret = <<>>

\* the platform delivers update u
Receive(u) ==
    /\ pc.at \in {"idle", "done"}
    /\ handled < MaxUpdates
    /\ handled' = handled + 1
    /\ update' = u
    /\ current' = <<>>
    /\ forecast' = <<>>
    /\ coords' = <<>>
    /\ current_text' = <<>>
    /\ forecast_text' = <<>>
    /\ exc' = <<>>
    /\ http' = <<>>
    /\ replies' = <<>>
    /\ log' = <<>>
    /\ escaped' = FALSE
    /\ handlers_run' = <<>>
    /\ todo' = Dispatch(u)
    /\ pc' = At("", "dispatch", 0)
    /\ UNCHANGED <<call, ret>>

\* the dispatcher invokes the next selected callback, or is finished with the update
Invoke ==
    /\ pc.at = "dispatch"
    /\ IF todo = <<>>
       THEN /\ pc' = Done
            /\ UNCHANGED <<handlers_run, todo>>
       ELSE /\ pc' = At(Head(todo), "entry", 0)
            /\ handlers_run' = Append(handlers_run, Head(todo))
            /\ todo' = Tail(todo)
    /\ UNCHANGED <<update, current, forecast, coords, current_text, forecast_text,
                   exc, http, replies, log, escaped, handled, call, ret>>

\* a handler returns (or an exception leaves it) and control is back in the dispatcher
Return ==
    /\ pc.at = "return"
    /\ pc' = At("", "dispatch", 0)
    /\ UNCHANGED <<update, handlers_run, current, forecast, coords, current_text,
                   forecast_text, exc, http, replies, log, escaped, handled, todo,
                   call, ret>>

SendAndReturn(r) ==
    /\ replies' = Append(replies, r)
    /\ pc' = At(pc.fn, "return", 0)
    /\ UNCHANGED <<update, handlers_run, current, forecast, coords, current_text,
                   forecast_text, exc, http, log, escaped, handled, todo, call, ret>>

start ==
    /\ pc = At("start", "entry", 0)
    /\ SendAndReturn(Reply("reply_text", StartText, "location_keyboard"))

help_cmd ==
    /\ pc = At("help_cmd", "entry", 0)
    /\ SendAndReturn(reply_text(HelpText))

unknown ==
    /\ pc = At("unknown", "entry", 0)
    /\ SendAndReturn(reply_text(UnknownText))

\* weather_cmd up to the try statement
weather_cmd ==
    /\ pc = At("weather_cmd", "entry", 0)
    /\ IF weather_cmd_entry(update.args) = "usage"
       THEN SendAndReturn(reply_text(UsageText))
       ELSE /\ pc' = At("weather_cmd", "try", 1)
            /\ UNCHANGED <<update, handlers_run, current, forecast, coords,
                           current_text, forecast_text, exc, http, replies, log,
                           escaped, handled, todo, call, ret>>

\* handle_location up to the try statement
handle_location ==
    /\ pc = At("handle_location", "entry", 0)
    /\ pc' = At("handle_location", "try", 1)
    /\ UNCHANGED <<update, handlers_run, current, forecast, coords, current_text,
                   forecast_text, exc, http, replies, log, escaped, handled, todo,
                   call, ret>>

\* the statement completes with result r, which `assign` stores, or raises
Complete(r) ==
    IF r.exc = <<>>
    THEN pc' = Advance(pc) /\ exc' = exc
    ELSE pc' = At(pc.fn, "except", 0) /\ exc' = r.exc

\* current = get_current_by_city(city) / get_current_by_coords(latitude, longitude)
GetCurrent(outcome) ==
    /\ InTry("get_current")
    /\ LET c == IF pc.fn = "weather_cmd"
                THEN get_current_by_city(Join(update.args), "metric", outcome)
                ELSE get_current_by_coords(update.location.latitude,
                                           update.location.longitude, "metric", outcome)
       IN /\ http' = Append(http, c.call)
          /\ current' = IF c.result.exc = <<>> THEN c.result.value ELSE current
          /\ Complete(c.result)
    /\ UNCHANGED <<update, handlers_run, forecast, coords, current_text,
                   forecast_text, replies, log, escaped, handled, todo, call, ret>>

\* lat = current["coord"]["lat"]; lon = current["coord"]["lon"]
Coord ==
    /\ InTry("coord")
    /\ LET r == IF Has(current, "coord") /\ {"lat", "lon"} \subseteq DOMAIN current["coord"]
                THEN Ok(<<current["coord"]["lat"], current["coord"]["lon"]>>)
                ELSE Raise(KeyError)
       IN /\ coords' = IF r.exc = <<>> THEN r.value ELSE coords
          /\ Complete(r)
    /\ UNCHANGED <<update, handlers_run, current, forecast, current_text,
                   forecast_text, http, replies, log, escaped, handled, todo, call, ret>>

\* forecast = get_forecast_by_coords(lat, lon)
GetForecast(outcome) ==
    /\ InTry("get_forecast")
    /\ LET c == IF pc.fn = "weather_cmd"
                THEN get_forecast_by_coords(coords[1], coords[2], "metric", outcome)
                ELSE get_forecast_by_coords(update.location.latitude,
                                            update.location.longitude, "metric", outcome)
       IN /\ http' = Append(http, c.call)
          /\ forecast' = IF c.result.exc = <<>> THEN c.result.value ELSE forecast
          /\ Complete(c.result)
    /\ UNCHANGED <<update, handlers_run, current, coords, current_text,
                   forecast_text, replies, log, escaped, handled, todo, call, ret>>

\* current_text = format_current_weather(current)
FormatCurrent ==
    /\ InTry("format_current")
    /\ LET r == format_current_weather(current)
       IN /\ current_text' = IF r.exc = <<>> THEN r.value ELSE current_text
          /\ Complete(r)
    /\ UNCHANGED <<update, handlers_run, current, forecast, coords, forecast_text,
                   http, replies, log, escaped, handled, todo, call, ret>>

\* forecast_text = format_forecast(forecast)
FormatForecast ==
    /\ InTry("format_forecast")
    /\ LET r == format_forecast(forecast)
       IN /\ forecast_text' = IF r.exc = <<>> THEN r.value ELSE forecast_text
          /\ Complete(r)
    /\ UNCHANGED <<update, handlers_run, current, forecast, coords, current_text,
                   http, replies, log, escaped, handled, todo, call, ret>>

\* await update.message.reply_markdown(current_text)
ReplyCurrent ==
    /\ InTry("reply_current")
    /\ replies' = Append(replies, reply_markdown(current_text))
    /\ pc' = Advance(pc)
    /\ UNCHANGED <<update, handlers_run, current, forecast, coords, current_text,
                   forecast_text, exc, http, log, escaped, handled, todo, call, ret>>

\* await update.message.reply_markdown(forecast_text)
ReplyForecast ==
    /\ InTry("reply_forecast")
    /\ replies' = Append(replies, reply_markdown(forecast_text))
    /\ pc' = Advance(pc)
    /\ UNCHANGED <<update, handlers_run, current, forecast, coords, current_text,
                   forecast_text, exc, http, log, escaped, handled, todo, call, ret>>

\* the except clauses of the handler that raised
Except ==
    /\ pc.at = "except"
    /\ LET h == IF pc.fn = "weather_cmd" THEN weather_cmd_except(exc[1])
                ELSE handle_location_except(exc[1])
       IN /\ log' = log \o h.log
          /\ replies' = replies \o h.reply
          /\ escaped' = (escaped \/ ~h.caught)
          /\ exc' = IF h.caught THEN <<>> ELSE exc
    /\ pc' = At(pc.fn, "return", 0)
    /\ UNCHANGED <<update, handlers_run, current, forecast, coords, current_text,
                   forecast_text, http, handled, todo, call, ret>>

Next ==
    \/ \E u \in Updates : Receive(u)
    \/ Invoke
    \/ Return
    \/ start
    \/ help_cmd
    \/ unknown
    \/ weather_cmd
    \/ handle_location
    \/ \E o \in CurrentOutcomes : GetCurrent(o)
    \/ Coord
    \/ \E o \in ForecastOutcomes : GetForecast(o)
    \/ FormatCurrent
    \/ FormatForecast
    \/ ReplyCurrent
    \/ ReplyForecast
    \/ Except

Spec == Init /\ [][Next]_vars

(***************************************************************************)
(* The formatter's pure functions, each applied once to an input that the  *)
(* initial state draws.                                                    *)
(***************************************************************************)
Fragments ==
    { <<"T","h","u","n","d","e","r">>, <<"s","t","o","r","m">>,
      <<"D","r","i","z","z","l","e">>, <<"R","a","i","n">>, <<"R","A","I","N">>,
      <<"r","a">>, <<"i","N">>, <<"S","n","o","w">>, <<"C","l","e","a","r">>,
      <<"C","l","o","u","d","s">>, <<"M","i","s","t">>, <<"F","o","g">>,
      <<"H","a","z","e">>, <<"S","m","o","k","e">>, <<"D","u","s","t">>, <<" ">> }

RECURSIVE Concat(_)
Concat(ss) == IF Len(ss) = 0 THEN <<>> ELSE Head(ss) \o Concat(Tail(ss))

Categories == {Concat(fs) : fs \in UNION {[1..n -> Fragments] : n \in 0..MaxFrags}}

TimeStamps == {0, 951868799, 1700000000, 1700035000}

TzOffsets == {0, 19800, -18000, 3600}

Optional(S) == {<<>>} \cup {<<v>> : v \in S}

\* the "sys" object with the given optional members
SysOf(country, sunrise, sunset) ==
    [k \in {x \in {"country", "sunrise", "sunset"} :
                \/ x = "country" /\ country # <<>>
                \/ x = "sunrise" /\ sunrise # <<>>
                \/ x = "sunset" /\ sunset # <<>>}
        |-> IF k = "country" THEN country[1]
            ELSE IF k = "sunrise" THEN sunrise[1] ELSE sunset[1]]

CurrentInputs ==
    {With(With(London, "sys", SysOf(c, sr, ss)), "timezone", tz) :
        c \in Optional({"GB", ""}), sr \in Optional({0, 1700000000}),
        ss \in Optional({0, 1700035000}), tz \in TzOffsets}
    \cup {Omit(London, "sys"), Omit(London, "timezone"), Omit(Tromso, "name")}
    \cup CurrentBodies

ForecastInputs ==
    ForecastBodies
    \cup {Omit(ForecastOf(1), "city"), ForecastOf(0),
          With(ForecastOf(1), "list", <<With(ForecastItem(1), "weather", <<>>)>>)}

FmtInit ==
    /\ HandlerInit
    /\ ret = <<>>
    /\ \/ \E c \in Categories : call = <<"icon_for", c>>
       \/ \E ts \in TimeStamps, tz \in TzOffsets : call = <<"fmt_time", ts, tz>>
       \/ \E d \in CurrentInputs : call = <<"format_current_weather", d>>
       \/ \E d \in ForecastInputs : call = <<"format_forecast", d>>

Pending(fn) == call # NoCall /\ call[1] = fn /\ ret = <<>>

Returned(fn) == call # NoCall /\ call[1] = fn /\ ret # <<>>

Call_icon_for ==
    /\ Pending("icon_for")
    /\ ret' = <<icon_for(call[2])>>
    /\ UNCHANGED <<handler_vars, call>>

Call_fmt_time ==
    /\ Pending("fmt_time")
    /\ ret' = <<fmt_time(call[2], call[3])>>
    /\ UNCHANGED <<handler_vars, call>>

Call_format_current_weather ==
    /\ Pending("format_current_weather")
    /\ ret' = <<format_current_weather(call[2])>>
    /\ UNCHANGED <<handler_vars, call>>

Call_format_forecast ==
    /\ Pending("format_forecast")
    /\ ret' = <<format_forecast(call[2])>>
    /\ UNCHANGED <<handler_vars, call>>

FmtNext ==
    \/ Call_icon_for
    \/ Call_fmt_time
    \/ Call_format_current_weather
    \/ Call_format_forecast

SpecFmt == FmtInit /\ [][FmtNext]_vars

(***************************************************************************)
(* Vocabulary of the properties.                                           *)
(***************************************************************************)
Ran(h) == \E i \in DOMAIN handlers_run : handlers_run[i] = h

WeatherIntent == Ran("weather_cmd") \/ Ran("handle_location")

NotFound404 == <<Exc("HTTPError", HTTP_NOT_FOUND)>>

CallsTo(url) == {i \in DOMAIN http : http[i].url = url}

Sent(text) == \E i \in DOMAIN replies : replies[i].text = text

GenericFailureTexts == {HttpFailText, WentWrongText, LocationFailText}

ErrorTexts == GenericFailureTexts \cup {CityNotFoundText}

ErrorReplySent == \E i \in DOMAIN replies : replies[i].method = "reply_text"
                                           /\ replies[i].text \in ErrorTexts

\* both provider calls returned and both payloads are well-formed for the formatter
BothSucceeded ==
    /\ Len(http) = 2
    /\ http[1].result = <<>>
    /\ http[2].result = <<>>
    /\ format_current_weather(current).exc = <<>>
    /\ format_forecast(forecast).exc = <<>>

\* the city's current-conditions lookup reported not-found
CityLookupNotFound ==
    /\ http # <<>>
    /\ http[1].fn = "get_current_by_city"
    /\ http[1].result = NotFound404

\* `kw` occurs in s in any letter case
ContainsCI(s, kw) ==
    \E i \in 0..(Len(s) - Len(kw)) :
        \A j \in 1..Len(kw) : LowerChar(s[i + j]) = kw[j]

(***************************************************************************)
(* C1: in the city-weather intent, for every city, a 404 from the          *)
(* current-conditions call is followed by no forecast call, and the        *)
(* "City not found" message is the only reply of the request.              *)
(***************************************************************************)
C1_NotFoundReplyNoForecast ==
    (Ran("weather_cmd") /\ update.args # <<>> /\ CityLookupNotFound) =>
        /\ Len(http) = 1
        /\ CallsTo(ForecastUrl) = {}
        /\ replies \in {<<>>, <<reply_text(CityNotFoundText)>>}
        /\ pc.at \in {"return", "dispatch", "done"}
              => replies = <<reply_text(CityNotFoundText)>>

C1_Witness ==
    /\ pc.at = "done"
    /\ Ran("weather_cmd")
    /\ Len(update.args) = 2
    /\ CityLookupNotFound
    /\ replies = <<reply_text(CityNotFoundText)>>

(***************************************************************************)
(* C2: /weather with an empty argument list sends the usage text as its    *)
(* single reply, issues no provider call and writes no log entry.          *)
(***************************************************************************)
C2_EmptyArgsUsageOnly ==
    (Ran("weather_cmd") /\ update.args = <<>>) =>
        /\ http = <<>>
        /\ log = <<>>
        /\ pc.at # "try"
        /\ replies = IF pc.at = "entry" THEN <<>> ELSE <<reply_text(UsageText)>>

C2_Witness ==
    /\ pc.at = "done"
    /\ Ran("weather_cmd")
    /\ update.args = <<>>
    /\ replies = <<reply_text(UsageText)>>
    /\ http = <<>>

(***************************************************************************)
(* C3: when both provider calls succeed with well-formed payloads the user *)
(* gets exactly two replies, the current-conditions message and then the   *)
(* forecast message; in the city intent the forecast call comes after the  *)
(* current-conditions call has returned and carries that result's          *)
(* latitude and longitude.                                                 *)
(***************************************************************************)
C3_TwoRepliesInOrder ==
    /\ (pc.at = "done" /\ WeatherIntent /\ BothSucceeded) =>
          replies = <<reply_markdown(format_current_weather(current).value),
                      reply_markdown(format_forecast(forecast).value)>>
    /\ Ran("weather_cmd") =>
          \A i \in CallsTo(ForecastUrl) :
              /\ i > 1
              /\ http[1].fn = "get_current_by_city"
              /\ http[1].result = <<>>
              /\ http[i].params.lat = current["coord"]["lat"]
              /\ http[i].params.lon = current["coord"]["lon"]

C3_Witness ==
    /\ pc.at = "done"
    /\ Ran("weather_cmd")
    /\ BothSucceeded
    /\ current = Tromso
    /\ http[2].params.lat = 696
    /\ Len(replies) = 2

(***************************************************************************)
(* C4: "City not found" is sent only when the city's current-conditions    *)
(* lookup reports not-found; every other error of a weather intent, the    *)
(* forecast call's failures included whatever their status, yields a       *)
(* generic failure message and a log entry.                                *)
(***************************************************************************)
C4_ErrorPolicy ==
    (pc.at = "done" /\ WeatherIntent) =>
        /\ Sent(CityNotFoundText) => CityLookupNotFound
        /\ (http # <<>> /\ ~BothSucceeded /\ ~CityLookupNotFound) =>
              /\ \E t \in GenericFailureTexts : Sent(t)
              /\ log # <<>>

(***************************************************************************)
(* C5: no retries.  An invocation issues at most one current-conditions    *)
(* call and at most one forecast call, none at all outside the two weather *)
(* intents or for the usage reply, and no call follows a failed call.      *)
(***************************************************************************)
C5_NoRetries ==
    /\ Cardinality(CallsTo(WeatherUrl)) <= 1
    /\ Cardinality(CallsTo(ForecastUrl)) <= 1
    /\ Len(http) <= 2
    /\ ~WeatherIntent => http = <<>>
    /\ (Ran("weather_cmd") /\ update.args = <<>>) => http = <<>>
    /\ \A i \in DOMAIN http : http[i].result # <<>> => i = Len(http)

C5_Witness ==
    /\ pc.at = "done"
    /\ Ran("weather_cmd")
    /\ Len(http) = 2
    /\ http[2].result = <<Exc("Timeout", 0)>>

(***************************************************************************)
(* C6: failure containment.  Whatever the provider calls do, a weather     *)
(* handler lets no exception escape and has sent a reply when it has       *)
(* returned; the task always has a next step until then, and afterwards    *)
(* the next update is taken (up to MaxUpdates), so no request stops the    *)
(* process.                                                                *)
(***************************************************************************)
C6_FailureContained ==
    /\ ~escaped
    /\ ~(pc.at = "done" /\ handled = MaxUpdates) => ENABLED Next
    /\ (pc.at = "done" /\ WeatherIntent) => (replies # <<>> /\ exc = <<>>)

C6_Witness ==
    /\ pc.at = "done"
    /\ Ran("handle_location")
    /\ Len(log) = 1
    /\ log[1].exc_info.type = "KeyError"
    /\ replies = <<reply_text(LocationFailText)>>
    /\ handled = 1

(***************************************************************************)
(* C7: icon_for returns the icon of the first rule, in the order thunder,  *)
(* drizzle, rain, snow, clear, cloud, {mist, fog, haze, smoke}, whose      *)
(* keyword occurs in the category in any letter case, and the fallback     *)
(* icon when none does; so a category containing "rain" gets the rain      *)
(* icon unless it also contains "thunder" or "drizzle".                    *)
(***************************************************************************)
IconRules ==
    << <<{kw_thunder}, icon_thunder>>, <<{kw_drizzle}, icon_drizzle>>,
       <<{kw_rain}, icon_rain>>, <<{kw_snow}, icon_snow>>,
       <<{kw_clear}, icon_clear>>, <<{kw_cloud}, icon_cloud>>,
       <<{kw_mist, kw_fog, kw_haze, kw_smoke}, icon_mist>> >>

RuleMatches(i, s) == \E kw \in IconRules[i][1] : ContainsCI(s, kw)

C7_FirstMatchWins ==
    Returned("icon_for") =>
        LET s == call[2]
            hits == {i \in DOMAIN IconRules : RuleMatches(i, s)}
        IN /\ hits = {} => ret[1] = icon_fallback
           /\ \A i \in hits : (\A j \in hits : i <= j) => ret[1] = IconRules[i][2]
           /\ ContainsCI(s, kw_rain) =>
                 ret[1] = IF ContainsCI(s, kw_thunder) THEN icon_thunder
                          ELSE IF ContainsCI(s, kw_drizzle) THEN icon_drizzle
                          ELSE icon_rain

C7_Witness ==
    /\ Returned("icon_for")
    /\ ContainsCI(call[2], kw_rain)
    /\ ContainsCI(call[2], kw_drizzle)
    /\ ~Contains(call[2], kw_rain)
    /\ ret[1] = icon_drizzle

(***************************************************************************)
(* C8: format_current_weather does not raise on a well-formed payload that *)
(* lacks sunrise and/or sunset; each absent time reads "N/A" and each time *)
(* that is present is rendered by fmt_time with the payload's UTC offset.  *)
(***************************************************************************)
WellFormedForFormatter(data) ==
    /\ Has(data, "weather") /\ Len(data["weather"]) > 0
    /\ {"main", "description"} \subseteq DOMAIN data["weather"][1]
    /\ Has(data, "main") /\ CurrentMainKeys \subseteq DOMAIN data["main"]

C8_SunTimesRendered ==
    (Returned("format_current_weather") /\ WellFormedForFormatter(call[2])) =>
        LET data == call[2]
            sys == Get(data, "sys", EmptyDict)
            tz == Get(data, "timezone", 0)
        IN /\ ret[1].exc = <<>>
           /\ ret[1].value[6][2] = SunStrPresent(sys, "sunrise", tz)
           /\ ret[1].value[6][4] = SunStrPresent(sys, "sunset", tz)

(***************************************************************************)
(* C9: intent routing.  /start, /help and /weather go to their own         *)
(* handlers, a shared location to the location handler, every other        *)
(* command gets the "didn't understand" reply and no provider call.        *)
(***************************************************************************)
C9_Routes ==
    /\ (update.kind = "command" /\ update.command = "start") =>
          (handlers_run = <<"start">>
           /\ replies = <<Reply("reply_text", StartText, "location_keyboard")>>)
    /\ (update.kind = "command" /\ update.command = "help") =>
          (handlers_run = <<"help_cmd">> /\ replies = <<reply_text(HelpText)>>)
    /\ (update.kind = "command" /\ update.command = "weather") =>
          (handlers_run = <<"weather_cmd">> /\ ~Sent(UnknownText))
    /\ update.kind = "location" =>
          (handlers_run = <<"handle_location">> /\ ~Sent(UnknownText))
    /\ (update.kind = "command" /\ update.command \notin {"start", "help", "weather"}) =>
          (handlers_run = <<"unknown">> /\ replies = <<reply_text(UnknownText)>>
           /\ http = <<>>)

\* C9 as claimed: every inbound message is handled by exactly one handler
C9_ExactlyOneHandler ==
    pc.at = "done" => (Len(handlers_run) = 1 /\ C9_Routes)

\* C9 as amended: every inbound command or shared location is handled by exactly
\* one handler, the first registered one that matches, with the routes above;
\* a message that is neither matches no handler, gets no reply and no call
C9_AtMostOneHandler ==
    pc.at = "done" =>
        /\ C9_Routes
        /\ Len(handlers_run) <= 1
        /\ update.kind \in {"command", "location"} => Len(handlers_run) = 1
        /\ update.kind \notin {"command", "location"} =>
              (handlers_run = <<>> /\ replies = <<>> /\ http = <<>>)

C9_Witness ==
    /\ pc.at = "done"
    /\ update.kind = "command"
    /\ update.command = "forecast"
    /\ handlers_run = <<"unknown">>
    /\ replies = <<reply_text(UnknownText)>>

====
